---- MODULE Spec2Model ----
(***************************************************************************)
(* Connection lifecycle and keepalive of SmartApi/webSocket.py.            *)
(*                                                                         *)
(* One WebSocket object (the client) creates a SmartSocketClientFactory    *)
(* per call of connect(); a factory owns one connector and, while its      *)
(* transport is up, one SmartSocketClientProtocol.  Factories are numbered *)
(* 1, 2, ... in creation order, so WebSocket.factory is the number of the  *)
(* newest one.  retry(), stopTrying(), the fields retries, delay,          *)
(* continueTrying and _callID are those the factory inherits from          *)
(* twisted's ReconnectingClientFactory; dropConnection, sendClose and the  *)
(* protocol states are those of autobahn's WebSocketClientProtocol.        *)
(*                                                                         *)
(* Above the connection sits the feed layer of WebSocket: send_request    *)
(* (the connect and subscribe frames), the heartBeat threads it starts,    *)
(* and _on_message with the two decoders _parse_binary and                 *)
(* _parse_text_message.                                                    *)
(*                                                                         *)
(* Times are in tenths of a second.  Time is observed where the code reads *)
(* the clock: each run of _loop_pong_check comes PING_INTERVAL after the    *)
(* run (or the onOpen) that scheduled it.                                  *)
(***************************************************************************)
EXTENDS Integers, FiniteSets, Sequences, TLC

\* ---------------------------------------------------------------- bounds
\* Number of factories connect() may create in one run of the model.
MaxFactories == 2
\* The reconnect_max_tries argument given to WebSocket.__init__.
TriesInput == 2

\* Number of heartBeat threads send_request may start in one run.
MaxHeartbeats == 2
\* Largest number of packets in an inbound binary frame, and largest packet
\* count its header announces.
MaxPackets == 2

\* ------------------------------------------------------------- constants
\* SmartSocketClientProtocol.PING_INTERVAL (2.5 s).
PING_INTERVAL == 25
\* WebSocket._minimum_reconnect_max_delay (5 s, in tenths).
minimum_reconnect_max_delay == 50
\* WebSocket._maximum_reconnect_max_tries.
maximum_reconnect_max_tries == 300
\* ReconnectingClientFactory.initialDelay (1.0 s, in tenths), inherited.
initialDelay == 10
\* Python's None for the optional numbers (timers, last pong time).
None == 0 - 1

\* The reconnect_max_delay arguments tried (2 s and 6 s, in tenths).
DelayInputs == {20, 60}
\* Sampled outcomes of random.normalvariate(delay, delay * jitter), in
\* standard deviations from the mean.
JitterSteps == {0 - 1, 1}

Factories == 1..MaxFactories
\* Elapsed times above 2 * PING_INTERVAL all compare alike; they are stored
\* as this value.
MaxDiff == 3 * PING_INTERVAL

Min(a, b) == IF a < b THEN a ELSE b

VARIABLES
    factory,              \* WebSocket.factory: newest factory, 0 before connect()
    ws,                   \* WebSocket.ws: factory whose protocol it refers to, 0 = None
    is_first_connect,     \* WebSocket._is_first_connect
    reconnect_max_delay,  \* WebSocket.reconnect_max_delay (after clamping)
    state,                \* per factory: state of its connector / protocol
    retries,              \* factory.retries
    delay,                \* factory.delay
    continueTrying,       \* factory.continueTrying
    callID,               \* factory._callID: a reconnect call is pending
    last_pong_diff,       \* time from protocol._last_pong_time to the latest run
                          \* of _loop_pong_check (0 if none since), None if unset
    next_ping,            \* protocol._next_ping: delay of the pending call, None
                          \* if there is none
    next_pong_check,      \* protocol._next_pong_check: likewise
    droppedByMe,          \* protocol.droppedByMe (set by dropConnection)
    ghost,                \* the peer of this transport has gone silent
    user_closed,          \* close() was called since the last connect() of the user
    reconnect_arg,        \* what the step just taken passed to on_reconnect,
                          \* None if it did not call it
    noreconnect_calls,    \* invocations of on_noreconnect so far
    task,                 \* WebSocket.task
    on_open,              \* WebSocket.on_open: "unset" (None) or what the
                          \* user's callback does
    on_ticks,             \* WebSocket.on_ticks is set
    hb_threads,           \* heartBeat threads started (none ever returns)
    hb_sending,           \* those of them inside self.ws.sendMessage now
    sent,                 \* request frames the step just taken wrote, in
                          \* order, each <<connection, task of the frame>>
    request_result,       \* how the send_request call of the step just taken
                          \* ended, NoCall if it made none
    inbound,              \* the frame the step just taken gave _on_message,
                          \* NoFrame if none
    message_result        \* how that _on_message call ended, NoMessage if
                          \* the step made none

feedVars == <<task, on_open, on_ticks, hb_threads, hb_sending, sent,
              request_result, inbound, message_result>>

vars == <<factory, ws, is_first_connect, reconnect_max_delay, state, retries,
          delay, continueTrying, callID, last_pong_diff, next_ping,
          next_pong_check, droppedByMe, ghost, user_closed, reconnect_arg,
          noreconnect_calls, task, on_open, on_ticks, hb_threads, hb_sending,
          sent, request_result, inbound, message_result>>

\* The step made no send_request call.
NoCall == "no call"

\* An inbound frame (payload, is_binary).  A binary payload is described by
\* its layout: `short` is its length when it is shorter than the 2-byte
\* header (None otherwise), `header` the packet count its first two bytes
\* announce, `packets` the lengths in bytes of the packets that follow, each
\* behind its own 2-byte length.  A header that announces more packets than
\* follow is a truncated frame.  A text payload is described by the first
\* decoding stage it fails at (`text`, "ok" if none).
Frame(b, k, h, ps, t) ==
    [is_binary |-> b, short |-> k, header |-> h, packets |-> ps, text |-> t]

\* No frame was handled by the step.
NoFrame == Frame(FALSE, None, None, <<>>, "none")

\* The end of an _on_message call: the exception that left it ("none" if it
\* returned), whether on_ticks was called, and with which ticks (a binary
\* tick is named by the position of its packet in the frame, the document
\* of a text frame by 0).
Result(e, c, t) == [handled |-> TRUE, raised |-> e, called |-> c, ticks |-> t]

\* No message was handled by the step.
NoMessage == [handled |-> FALSE, raised |-> "none", called |-> FALSE, ticks |-> <<>>]

\* States of a factory's connection:
\*   "none"          the factory does not exist yet
\*   "connecting"    connector.connect() called, handshake not finished
\*   "open"          protocol in STATE_OPEN
\*   "closing"       protocol sent its close frame (STATE_CLOSING)
\*   "aborted"       dropConnection(abort=True): STATE_CLOSED, connectionLost
\*                   queued by the transport with callLater(0)
\*   "disconnected"  connectionLost / connection failure delivered
Live == {"open", "closing", "aborted"}

\* WebSocket.__init__: reconnect_max_delay is raised to the minimum.
ClampMaxDelay(d) ==
    IF d < minimum_reconnect_max_delay THEN minimum_reconnect_max_delay ELSE d

\* WebSocket.__init__: reconnect_max_tries is lowered to the maximum.
ClampMaxTries(n) ==
    IF n > maximum_reconnect_max_tries THEN maximum_reconnect_max_tries ELSE n

reconnect_max_tries == ClampMaxTries(TriesInput)

\* factory.maxRetries and factory.maxDelay as _create_connection sets them.
maxRetries == reconnect_max_tries
maxDelay == reconnect_max_delay

\* WebSocket.__init__ called with task t: the callbacks are None, nothing
\* is connected, no thread runs.
Constructed(t) ==
    /\ factory = 0
    /\ ws = 0
    /\ is_first_connect = TRUE
    /\ reconnect_max_delay \in {ClampMaxDelay(d) : d \in DelayInputs}
    /\ state = [f \in Factories |-> "none"]
    /\ retries = [f \in Factories |-> 0]
    /\ delay = [f \in Factories |-> initialDelay]
    /\ continueTrying = [f \in Factories |-> TRUE]
    /\ callID = [f \in Factories |-> FALSE]
    /\ last_pong_diff = [f \in Factories |-> None]
    /\ next_ping = [f \in Factories |-> None]
    /\ next_pong_check = [f \in Factories |-> None]
    /\ droppedByMe = [f \in Factories |-> FALSE]
    /\ ghost = [f \in Factories |-> FALSE]
    /\ user_closed = FALSE
    /\ reconnect_arg = None
    /\ noreconnect_calls = 0
    /\ task = t
    /\ on_open = "unset"
    /\ on_ticks = FALSE
    /\ hb_threads = 0
    /\ hb_sending = 0
    /\ sent = <<>>
    /\ request_result = NoCall
    /\ inbound = NoFrame
    /\ message_result = NoMessage

\* A client constructed for the market-watch task.
Init == Constructed("mw")

\* A step of the connection layer that makes no send_request call, handles
\* no message and leaves the feed layer alone.
NoFeed ==
    /\ sent' = <<>>
    /\ request_result' = NoCall
    /\ inbound' = NoFrame
    /\ message_result' = NoMessage
    /\ UNCHANGED <<task, on_open, on_ticks, hb_threads, hb_sending>>

\* ------------------------------------------- ReconnectingClientFactory
\* retry(): nothing happens once stopTrying() cleared continueTrying;
\* otherwise retries is incremented.
RetryCount(f) == IF continueTrying[f] THEN retries[f] + 1 ELSE retries[f]

\* retry(): a reconnect is scheduled unless retrying was stopped or the
\* incremented count exceeds maxRetries.
RetrySchedules(f) == continueTrying[f] /\ retries[f] + 1 <= maxRetries

\* retry(): delay = min(delay * factor, maxDelay), factor = e.
Backoff(d) == Min((d * 2718) \div 1000, maxDelay)

\* retry(): delay = random.normalvariate(delay, delay * jitter), with
\* jitter = 0.1196...; j is the sampled deviation in standard deviations.
Jittered(d, j) == d + j * ((d * 12) \div 100)

RetryDelay(f, j) ==
    IF RetrySchedules(f) THEN Jittered(Backoff(delay[f]), j) ELSE delay[f]

\* --------------------------------------------- SmartSocketClientFactory
\* Mutant of NotifiesReconnect: the guard written as `>= 0`.
NotifiesReconnectAlways(f) == retries[f] >= 0

\* clientConnectionFailed / clientConnectionLost: `if self.retries > 0`.
NotifiesReconnect(f) == retries[f] > 0

\* send_noreconnect: `self.retries > self.maxRetries`, read after retry().
SendsNoreconnect(f) == RetryCount(f) > maxRetries

\* The body shared by clientConnectionFailed and clientConnectionLost:
\* on_reconnect(self.retries) if retries > 0, then retry(connector), then
\* send_noreconnect().
ConnectionEnded(f, j) ==
    /\ reconnect_arg' = IF NotifiesReconnect(f) THEN retries[f] ELSE None
    /\ retries' = [retries EXCEPT ![f] = RetryCount(f)]
    /\ delay' = [delay EXCEPT ![f] = RetryDelay(f, j)]
    /\ callID' = [callID EXCEPT ![f] = RetrySchedules(f)]
    /\ noreconnect_calls' =
         IF SendsNoreconnect(f) THEN noreconnect_calls + 1 ELSE noreconnect_calls

\* The connect request of factory f fails: clientConnectionFailed.
ConnectFailed(f) ==
    /\ NoFeed
    /\ state[f] = "connecting"
    /\ \E j \in JitterSteps : ConnectionEnded(f, j)
    /\ state' = [state EXCEPT ![f] = "disconnected"]
    /\ UNCHANGED <<factory, ws, is_first_connect, reconnect_max_delay,
                   continueTrying, last_pong_diff, next_ping, next_pong_check,
                   droppedByMe, ghost, user_closed>>

\* The reconnect call that retry() scheduled fires: _callID = None and
\* connector.connect(), which will build a new protocol.
Reconnector(f) ==
    /\ NoFeed
    /\ callID[f]
    /\ callID' = [callID EXCEPT ![f] = FALSE]
    /\ state' = [state EXCEPT ![f] = "connecting"]
    /\ droppedByMe' = [droppedByMe EXCEPT ![f] = FALSE]
    /\ reconnect_arg' = None
    /\ UNCHANGED <<factory, ws, is_first_connect, reconnect_max_delay, retries,
                   delay, continueTrying, last_pong_diff, next_ping,
                   next_pong_check, ghost, user_closed, noreconnect_calls>>

\* ------------------------------------------------------------ WebSocket
\* fn after connect() built the next factory with value v for this field
\* (when `made`), fn itself otherwise.
WithNew(made, fn, v) == IF made THEN [fn EXCEPT ![factory + 1] = v] ELSE fn

\* WebSocket.connect(): _create_connection builds a new factory (retries 0,
\* delay initialDelay, trying), sets self.ws to the new factory's ws (None),
\* and connectWS starts its connector.
DoConnect ==
    /\ NoFeed
    /\ factory < MaxFactories
    /\ factory' = factory + 1
    /\ ws' = 0
    /\ state' = WithNew(TRUE, state, "connecting")
    /\ retries' = WithNew(TRUE, retries, 0)
    /\ delay' = WithNew(TRUE, delay, initialDelay)
    /\ continueTrying' = WithNew(TRUE, continueTrying, TRUE)
    /\ callID' = WithNew(TRUE, callID, FALSE)
    /\ user_closed' = FALSE
    /\ reconnect_arg' = None
    /\ UNCHANGED <<is_first_connect, reconnect_max_delay, last_pong_diff,
                   next_ping, next_pong_check, droppedByMe, ghost,
                   noreconnect_calls>>

\* The user's first call of connect().
Connect == factory = 0 /\ DoConnect

\* A further call of connect() by the user, on a client that has connected
\* before.
ConnectAgain == factory # 0 /\ DoConnect

\* WebSocket._on_open: `if not self._is_first_connect: self.connect()`.
OpenConnectsAgain == ~is_first_connect

\* Mutant of ValidTask: the check of the task left out.
ValidTaskAny(t) == TRUE

\* send_request: `if self.task in ("mw","sfi","dp")`.
ValidTask(t) == t \in {"mw", "sfi", "dp"}

\* send_request called while WebSocket.ws is w (0: None) and the connections
\* are in the states st.  With a valid task it calls self.ws.sendMessage for
\* the connect frame (task "cn") and then for the subscribe frame (self.task);
\* sendMessage writes the frame only on a protocol in STATE_OPEN and returns
\* silently otherwise.
RequestFrames(w, st) ==
    IF ValidTask(task) /\ w # 0 /\ st[w] = "open"
    THEN << <<w, "cn">>, <<w, task>> >>
    ELSE <<>>

\* send_request reaches `threading.Thread(target=self.heartBeat).start()`:
\* the task is valid and neither sendMessage call raised (self.ws is a
\* protocol).
StartsHeartBeat(w) == ValidTask(task) /\ w # 0

\* How send_request ends: `return True` after the thread is started; with
\* self.ws None the AttributeError is caught, _close() finds no ws and the
\* exception is raised again; with an invalid task the else branch prints
\* and the function returns None.
RequestResult(w) ==
    IF ~ValidTask(task) THEN "None"
    ELSE IF w = 0 THEN "raised"
    ELSE "True"

\* The whole send_request call.
SendRequest(w, st) ==
    /\ StartsHeartBeat(w) => hb_threads < MaxHeartbeats
    /\ sent' = RequestFrames(w, st)
    /\ request_result' = RequestResult(w)
    /\ hb_threads' = IF StartsHeartBeat(w) THEN hb_threads + 1 ELSE hb_threads

\* The handshake of factory f succeeds.  onConnect: factory.ws and, through
\* _on_connect, WebSocket.ws become the new protocol.  onOpen: _loop_ping and
\* _loop_pong_check run once (no pong yet, so no abort) and schedule
\* themselves; _on_open calls connect() unless this is the first open, clears
\* _is_first_connect and calls the user's on_open, which (if the user set
\* it so) calls send_request; an exception of that call leaves on_open and
\* onOpen, and what their caller does with it is not part of this file.
HandshakeOk(f) ==
    /\ state[f] = "connecting"
    /\ OpenConnectsAgain => factory < MaxFactories
    /\ LET made == OpenConnectsAgain IN
        /\ factory' = IF made THEN factory + 1 ELSE factory
        /\ ws' = IF made THEN 0 ELSE f
        /\ state' = [WithNew(made, state, "connecting") EXCEPT ![f] = "open"]
        /\ retries' = WithNew(made, retries, 0)
        /\ delay' = WithNew(made, delay, initialDelay)
        /\ continueTrying' = WithNew(made, continueTrying, TRUE)
        /\ callID' = WithNew(made, callID, FALSE)
    /\ is_first_connect' = FALSE
    /\ last_pong_diff' = [last_pong_diff EXCEPT ![f] = None]
    /\ next_ping' = [next_ping EXCEPT ![f] = PING_INTERVAL]
    /\ next_pong_check' = [next_pong_check EXCEPT ![f] = PING_INTERVAL]
    /\ droppedByMe' = [droppedByMe EXCEPT ![f] = FALSE]
    /\ ghost' = [ghost EXCEPT ![f] = FALSE]
    /\ reconnect_arg' = None
    /\ IF on_open = "subscribe"
       THEN SendRequest(ws', state')
       ELSE sent' = <<>> /\ request_result' = NoCall /\ UNCHANGED hb_threads
    /\ inbound' = NoFrame
    /\ message_result' = NoMessage
    /\ UNCHANGED <<reconnect_max_delay, user_closed, noreconnect_calls,
                   task, on_open, on_ticks, hb_sending>>

\* WebSocket.close(): stop_retry() calls stopTrying() on self.factory (the
\* pending reconnect call is cancelled, continueTrying cleared); _close()
\* sends a close frame on self.ws if there is one (sendClose acts only on a
\* protocol in STATE_OPEN).
Close ==
    /\ NoFeed
    /\ factory # 0
    /\ callID' = [callID EXCEPT ![factory] = FALSE]
    /\ continueTrying' = [continueTrying EXCEPT ![factory] = FALSE]
    /\ state' = IF ws # 0 /\ state[ws] = "open"
                THEN [state EXCEPT ![ws] = "closing"]
                ELSE state
    /\ user_closed' = TRUE
    /\ reconnect_arg' = None
    /\ UNCHANGED <<factory, ws, is_first_connect, reconnect_max_delay, retries,
                   delay, last_pong_diff, next_ping, next_pong_check,
                   droppedByMe, ghost, noreconnect_calls>>

\* -------------------------------------------- SmartSocketClientProtocol
\* onPong: _last_pong_time = time.time().
Pong(f) ==
    /\ NoFeed
    /\ state[f] = "open"
    /\ ~ghost[f]
    /\ last_pong_diff' = [last_pong_diff EXCEPT ![f] = 0]
    /\ reconnect_arg' = None
    /\ UNCHANGED <<factory, ws, is_first_connect, reconnect_max_delay, state,
                   retries, delay, continueTrying, callID, next_ping,
                   next_pong_check, droppedByMe, ghost, user_closed, noreconnect_calls>>

\* _loop_ping, run by its pending call: sendPing, then
\* callLater(PING_INTERVAL, _loop_ping).  (The connectionLost of an aborted
\* transport, a callLater(0), comes before any call PING_INTERVAL away.)
LoopPing(f) ==
    /\ NoFeed
    /\ next_ping[f] # None
    /\ state[f] # "aborted"
    /\ next_ping' = [next_ping EXCEPT ![f] = PING_INTERVAL]
    /\ reconnect_arg' = None
    /\ UNCHANGED <<factory, ws, is_first_connect, reconnect_max_delay, state,
                   retries, delay, continueTrying, callID, last_pong_diff,
                   next_pong_check, droppedByMe, ghost, user_closed,
                   noreconnect_calls>>

\* time.time() - self._last_pong_time, read by the run of _loop_pong_check
\* that comes PING_INTERVAL after the previous one (None: no pong yet).
Aged(d) == IF d = None THEN None ELSE Min(d + PING_INTERVAL, MaxDiff)

\* Mutant of WatchdogExpired: the comparison written as `>=`.
WatchdogExpiredAtLimit(d) == d # None /\ d >= 2 * PING_INTERVAL

\* Mutant of WatchdogExpired: the limit taken in milliseconds.
WatchdogExpiredMillis(d) == d # None /\ d > 2 * PING_INTERVAL * 1000

\* _loop_pong_check: `if self._last_pong_time:` and
\* `last_pong_diff > (2 * self.PING_INTERVAL)`.
WatchdogExpired(d) == d # None /\ d > 2 * PING_INTERVAL

\* _loop_pong_check, run by its pending call: dropConnection(abort=True)
\* when the watchdog expired (it acts unless the protocol is already
\* STATE_CLOSED: the transport is aborted and delivers connectionLost from a
\* callLater(0)), then callLater(PING_INTERVAL, _loop_pong_check).
LoopPongCheck(f) ==
    /\ NoFeed
    /\ next_pong_check[f] # None
    /\ state[f] # "aborted"
    /\ LET d == Aged(last_pong_diff[f])
           drop == WatchdogExpired(d) /\ state[f] \in {"open", "closing"}
       IN
        /\ last_pong_diff' = [last_pong_diff EXCEPT ![f] = d]
        /\ state' = IF drop THEN [state EXCEPT ![f] = "aborted"] ELSE state
        /\ droppedByMe' =
             IF drop THEN [droppedByMe EXCEPT ![f] = TRUE] ELSE droppedByMe
    /\ next_pong_check' = [next_pong_check EXCEPT ![f] = PING_INTERVAL]
    /\ reconnect_arg' = None
    /\ UNCHANGED <<factory, ws, is_first_connect, reconnect_max_delay, retries,
                   delay, continueTrying, callID, next_ping, ghost,
                   user_closed, noreconnect_calls>>

\* Mutant of CancelledCall: onClose leaves the pending call alone.
KeptCall(t) == t

\* onClose: `if self._next_ping: self._next_ping.cancel()`, and the same
\* for _next_pong_check: the pending call t is cancelled.
CancelledCall(t) == None

\* The transport of factory f is gone (the peer or the network dropped it,
\* the closing handshake ended, or the abort's connectionLost arrived).
\* Protocol.onClose: on_error / on_close callbacks, _last_ping_time and
\* _last_pong_time = None, both pending calls cancelled.  Then the
\* connector reports to the factory: clientConnectionLost.
ConnectionLost(f) ==
    /\ NoFeed
    /\ \/ state[f] = "open" /\ ~ghost[f]
       \/ state[f] \in {"closing", "aborted"}
    /\ state' = [state EXCEPT ![f] = "disconnected"]
    /\ last_pong_diff' = [last_pong_diff EXCEPT ![f] = None]
    /\ next_ping' = [next_ping EXCEPT ![f] = CancelledCall(next_ping[f])]
    /\ next_pong_check' =
         [next_pong_check EXCEPT ![f] = CancelledCall(next_pong_check[f])]
    /\ ghost' = [ghost EXCEPT ![f] = FALSE]
    /\ \E j \in JitterSteps : ConnectionEnded(f, j)
    /\ UNCHANGED <<factory, ws, is_first_connect, reconnect_max_delay,
                   continueTrying, droppedByMe, user_closed>>

\* ---------------------------------------------------------- environment
\* The peer of an open transport goes silent without closing it (a
\* half-open, "ghost" connection): no pong and no close arrives any more.
Stall(f) ==
    /\ NoFeed
    /\ state[f] = "open"
    /\ ~ghost[f]
    /\ ghost' = [ghost EXCEPT ![f] = TRUE]
    /\ reconnect_arg' = None
    /\ UNCHANGED <<factory, ws, is_first_connect, reconnect_max_delay, state,
                   retries, delay, continueTrying, callID, last_pong_diff,
                   next_ping, next_pong_check, droppedByMe, user_closed, noreconnect_calls>>

Next ==
    \/ Connect
    \/ Close
    \/ \E f \in Factories : ConnectFailed(f)
    \/ \E f \in Factories : HandshakeOk(f)
    \/ \E f \in Factories : Reconnector(f)
    \/ \E f \in Factories : Pong(f)
    \/ \E f \in Factories : LoopPing(f)
    \/ \E f \in Factories : LoopPongCheck(f)
    \/ \E f \in Factories : ConnectionLost(f)
    \/ \E f \in Factories : Stall(f)

Spec == Init /\ [][Next]_vars

\* The same client with a user who calls connect() again.
NextUser == Next \/ ConnectAgain

SpecUser == Init /\ [][NextUser]_vars

\* The fairness the reactor gives: a pending _loop_pong_check call is run,
\* and the connectionLost of an aborted transport is delivered.
AbortDelivered(f) == state[f] = "aborted" /\ ConnectionLost(f)

FairSpec ==
    /\ Spec
    /\ \A f \in Factories :
          WF_vars(LoopPongCheck(f)) /\ WF_vars(AbortDelivered(f))

\* ------------------------------------------------------------ feed layer
\* The variables of the connection layer that outlive a step.
connVars == <<factory, ws, is_first_connect, reconnect_max_delay, state,
              retries, delay, continueTrying, callID, last_pong_diff,
              next_ping, next_pong_check, droppedByMe, ghost, user_closed,
              noreconnect_calls>>

\* The task arguments given to WebSocket.__init__.
TaskInputs == {"mw", "xyz"}

\* A client constructed with any of the task arguments.
InitFeed == \E t \in TaskInputs : Constructed(t)

\* The user assigns an on_open callback that calls send_request.
SetOnOpen ==
    /\ on_open = "unset"
    /\ on_open' = "subscribe"
    /\ sent' = <<>>
    /\ request_result' = NoCall
    /\ inbound' = NoFrame
    /\ message_result' = NoMessage
    /\ reconnect_arg' = None
    /\ UNCHANGED connVars
    /\ UNCHANGED <<task, on_ticks, hb_threads, hb_sending>>

\* The user calls send_request on a client that has called connect().
UserSendRequest ==
    /\ factory # 0
    /\ SendRequest(ws, state)
    /\ inbound' = NoFrame
    /\ message_result' = NoMessage
    /\ reconnect_arg' = None
    /\ UNCHANGED connVars
    /\ UNCHANGED <<task, on_open, on_ticks, hb_sending>>

\* heartBeat: self.ws.sendMessage for the heartbeat frame (task "hb"),
\* written if self.ws is a protocol in STATE_OPEN.
HeartBeatFrames(w, st) ==
    IF w # 0 /\ st[w] = "open" THEN << <<w, "hb">> >> ELSE <<>>

\* A heartBeat thread, at the top of its `while True` (just started, or back
\* from time.sleep(60)), enters self.ws.sendMessage.  The thread is not the
\* reactor's: the steps of the reactor go on while it is in there.
HeartBeatBegin ==
    /\ hb_sending < hb_threads
    /\ hb_sending' = hb_sending + 1
    /\ sent' = HeartBeatFrames(ws, state)
    /\ request_result' = NoCall
    /\ inbound' = NoFrame
    /\ message_result' = NoMessage
    /\ reconnect_arg' = None
    /\ UNCHANGED connVars
    /\ UNCHANGED <<task, on_open, on_ticks, hb_threads>>

\* That thread leaves sendMessage (an exception is caught by the bare
\* `except` and printed) and sleeps.
HeartBeatEnd ==
    /\ hb_sending > 0
    /\ hb_sending' = hb_sending - 1
    /\ sent' = <<>>
    /\ request_result' = NoCall
    /\ inbound' = NoFrame
    /\ message_result' = NoMessage
    /\ reconnect_arg' = None
    /\ UNCHANGED connVars
    /\ UNCHANGED <<task, on_open, on_ticks, hb_threads>>

\* The client and its user on a network whose peer sends no pong (so the
\* watchdog of _loop_pong_check stays unarmed) and does not go silent.
NextFeed ==
    \/ Connect
    \/ Close
    \/ \E f \in Factories : ConnectFailed(f)
    \/ \E f \in Factories : HandshakeOk(f)
    \/ \E f \in Factories : Reconnector(f)
    \/ \E f \in Factories : LoopPing(f)
    \/ \E f \in Factories : LoopPongCheck(f)
    \/ \E f \in Factories : ConnectionLost(f)
    \/ SetOnOpen
    \/ UserSendRequest
    \/ HeartBeatBegin
    \/ HeartBeatEnd

SpecFeed == InitFeed /\ [][NextFeed]_vars

\* -------------------------------------------------------------- decoders
\* Lengths in bytes of the packets tried: too short for the 4-byte
\* instrument token, the 64 bytes read before the depth entries, and 64 bytes
\* with five and with ten 12-byte depth entries.
PacketSizes == {2, 64, 124, 184}

\* The sequences over S of length at most n.
RECURSIVE SeqsUpTo(_, _)
SeqsUpTo(S, n) ==
    IF n = 0 THEN {<<>>}
    ELSE LET shorter == SeqsUpTo(S, n - 1)
         IN shorter \cup {Append(q, x) : q \in {r \in shorter : Len(r) = n - 1}, x \in S}

\* The stages _parse_text_message takes a text payload through after
\* payload.decode("utf-8") (the payload of a text frame is valid UTF-8):
\* base64.b64decode, zlib.decompress, .decode("utf-8"), json.loads.
TextStages == <<"base64", "zlib", "inner_utf8", "json">>

\* The inbound frames tried.
Frames ==
    {Frame(TRUE, k, None, <<>>, "none") : k \in {0, 1}}
    \cup {Frame(TRUE, None, h, ps, "none") :
             h \in 0..MaxPackets, ps \in SeqsUpTo(PacketSizes, MaxPackets)}
    \cup {Frame(FALSE, None, None, <<>>, t) :
             t \in {TextStages[i] : i \in 1..Len(TextStages)} \cup {"ok"}}

\* Bytes of the packets ps with their length prefixes.
RECURSIVE PacketBytes(_)
PacketBytes(ps) ==
    IF ps = <<>> THEN 0 ELSE 2 + Head(ps) + PacketBytes(Tail(ps))

\* len(payload) of a binary frame.
FrameLength(bin) ==
    IF bin.short # None THEN bin.short ELSE 2 + PacketBytes(bin.packets)

\* An exception raised by the decoding, in place of its result.
Raised(e) == [raised |-> e, ticks |-> <<>>]
Returned(t) == [raised |-> "none", ticks |-> t]

\* _split_packets: [] for a payload shorter than 2 bytes; otherwise
\* number_of_packets packets are cut off, and _unpack_int raises
\* struct.error on the empty slice where the payload has ended.
SplitPackets(bin) ==
    IF bin.short # None THEN Returned(<<>>)
    ELSE IF bin.header > Len(bin.packets) THEN Raised("struct.error")
    ELSE Returned(SubSeq(bin.packets, 1, bin.header))

\* The local name d of _parse_binary before anything is assigned to it.
Unbound == "unbound"

\* The `for packet in packets` loop of _parse_binary from packet i on, and
\* the `data.append(d)` and `return data` after it.  _unpack_int(packet, 0, 4)
\* raises struct.error on a packet shorter than 4 bytes (the two timestamps
\* are read under `except Exception`); `d["last_trade_time"] = ...` and
\* `data.append(d)` raise NameError while d is unbound.
RECURSIVE ParseLoop(_, _, _, _)
ParseLoop(packets, i, d, data) ==
    IF i > Len(packets)
    THEN IF d = Unbound THEN Raised("NameError") ELSE Returned(Append(data, d))
    ELSE IF packets[i] < 4 THEN Raised("struct.error")
    ELSE IF d = Unbound THEN Raised("NameError")
    ELSE ParseLoop(packets, i + 1, i, data)

\* _parse_binary: `data = []`, the loop, the return; nothing binds d.
ParseBinary(bin) ==
    LET packets == SplitPackets(bin) IN
    IF packets.raised # "none" THEN packets
    ELSE ParseLoop(packets.ticks, 1, Unbound, <<>>)

\* The exception a failing stage of _parse_text_message raises.
StageError(st) ==
    CASE st = "base64" -> "binascii.Error"
      [] st = "zlib" -> "zlib.error"
      [] st = "inner_utf8" -> "UnicodeDecodeError"
      [] st = "json" -> "JSONDecodeError"

\* The exceptions that are ValueErrors.
ValueErrors == {"UnicodeDecodeError", "binascii.Error", "JSONDecodeError"}

\* The stages inside the `try:` of _parse_text_message.
InTry == {"zlib", "inner_utf8", "json"}

\* `except ValueError: return`.
Caught(st) == st \in InTry /\ StageError(st) \in ValueErrors

\* _parse_text_message on a payload that fails at stage t ("ok": at none):
\* a caught failure returns without a callback, any other leaves the
\* function; a decoded payload is given to self.on_ticks, callable or not.
ParseText(t) ==
    IF t = "ok"
    THEN IF on_ticks THEN Result("none", TRUE, <<0>>)
         ELSE Result("TypeError", FALSE, <<>>)
    ELSE IF Caught(t) THEN Result("none", FALSE, <<>>)
    ELSE Result(StageError(t), FALSE, <<>>)

\* _on_message: a binary payload longer than 4 bytes is parsed and given to
\* on_ticks if that is set; a text payload goes to _parse_text_message.
MessageResult(fr) ==
    IF fr.is_binary
    THEN IF on_ticks /\ FrameLength(fr) > 4
         THEN LET r == ParseBinary(fr) IN
              Result(r.raised, r.raised = "none", r.ticks)
         ELSE Result("none", FALSE, <<>>)
    ELSE ParseText(fr.text)

\* The user assigns an on_ticks callback.
SetOnTicks ==
    /\ ~on_ticks
    /\ on_ticks' = TRUE
    /\ inbound' = NoFrame
    /\ message_result' = NoMessage
    /\ sent' = <<>>
    /\ request_result' = NoCall
    /\ reconnect_arg' = None
    /\ UNCHANGED connVars
    /\ UNCHANGED <<task, on_open, hb_threads, hb_sending>>

\* onMessage hands the frame fr to _on_message.
OnMessage(fr) ==
    /\ inbound' = fr
    /\ message_result' = MessageResult(fr)
    /\ sent' = <<>>
    /\ request_result' = NoCall
    /\ reconnect_arg' = None
    /\ UNCHANGED connVars
    /\ UNCHANGED <<task, on_open, on_ticks, hb_threads, hb_sending>>

NextDecode ==
    \/ SetOnTicks
    \/ \E fr \in Frames : OnMessage(fr)

SpecDecode == Init /\ [][NextDecode]_vars

\* ================================================================ claims
\* A failed attempt or a lost connection of factory f is handled in this
\* step (clientConnectionFailed or clientConnectionLost ran).
LossStep(f) ==
    /\ state[f] \in {"connecting", "open", "closing", "aborted"}
    /\ state'[f] = "disconnected"

\* C1: after every successful open, the retry count of the factory whose
\* transport opened is 0 and its delay is back at the initial delay.
C1_RetryResetOnOpen ==
    \A f \in Factories :
        state[f] = "open" => retries[f] = 0 /\ delay[f] = initialDelay

\* C2: once a retry count exceeds max_tries, nothing more is scheduled for
\* the client and on_noreconnect has been invoked exactly once.
C2_NoreconnectOnce ==
    \A f \in Factories :
        retries[f] > reconnect_max_tries =>
            /\ \A g \in Factories : ~callID[g]
            /\ noreconnect_calls = 1

\* C3 (as claimed): on a loss with retrying not stopped and retries
\* remaining, the count is incremented, on_reconnect is invoked with the
\* incremented count, and a reconnect is scheduled.
C3_ReconnectReportsIncremented ==
    [][\A f \in Factories :
          (LossStep(f) /\ continueTrying[f] /\ retries[f] < reconnect_max_tries)
          => /\ retries'[f] = retries[f] + 1
             /\ reconnect_arg' = retries'[f]
             /\ callID'[f]]_vars

\* C3 (amended): on such a loss on_reconnect is invoked before the count is
\* incremented, with the count of the failures before this one, and only if
\* that count is above 0; the count is then incremented and a reconnect is
\* scheduled.
C3_ReconnectReportsPrevious ==
    [][\A f \in Factories :
          (LossStep(f) /\ continueTrying[f] /\ retries[f] < reconnect_max_tries)
          => /\ retries'[f] = retries[f] + 1
             /\ reconnect_arg' = (IF retries[f] > 0 THEN retries[f] ELSE None)
             /\ callID'[f]]_vars

\* C3's case: a second failure has just reported attempt 1 and scheduled the
\* next reconnect.
C3_SecondFailureReported ==
    /\ reconnect_arg = 1
    /\ \E f \in Factories : retries[f] = 2 /\ callID[f]

\* C4: a connect() call while a connection of the client is connecting or
\* open creates no factory, starts no transport and leaves ws unchanged.
C4_ConnectIdempotent ==
    [][(/\ factory' # factory
        /\ \A f \in Factories : state'[f] = "open" => state[f] = "open"
        /\ \E f \in Factories : state[f] \in {"connecting", "open"})
       => (factory' = factory /\ ws' = ws /\ state' = state)]_vars

\* C5: at most one transport connection of the client is connecting or
\* open.
C5_OneConnection ==
    Cardinality({f \in Factories : state[f] \in {"connecting", "open"}}) <= 1

\* C6: once the user has called close(), no pending reconnect call fires
\* (no reconnect attempt is made).
C6_NoReconnectAfterClose ==
    [][user_closed =>
         \A f \in Factories :
             ~(callID[f] /\ ~callID'[f] /\ state'[f] = "connecting")]_vars

\* C7: a run of the pong watchdog aborts the connection if and only if a
\* pong was received on it and the time since then exceeds
\* 2 * PING_INTERVAL; without a pong it never aborts.
C7_WatchdogAbortsIff ==
    [][\A f \in Factories :
          /\ (state[f] # "aborted" /\ state'[f] = "aborted")
             => /\ last_pong_diff'[f] # None
                /\ last_pong_diff'[f] > 2 * PING_INTERVAL
          /\ (/\ state[f] \in {"open", "closing"}
              /\ last_pong_diff[f] # None
              /\ last_pong_diff'[f] = last_pong_diff[f] + PING_INTERVAL
              /\ last_pong_diff'[f] > 2 * PING_INTERVAL)
             => state'[f] = "aborted"]_vars

\* C7's case: the watchdog has aborted a connection whose last pong is more
\* than 2 * PING_INTERVAL old.
C7_WatchdogAborted ==
    \E f \in Factories :
        state[f] = "aborted" /\ last_pong_diff[f] > 2 * PING_INTERVAL

\* C8: a connection that has closed (onClose ran) has no pending ping call
\* and no pending watchdog call, so neither runs for it again.
C8_TimersCancelledOnClose ==
    \A f \in Factories :
        state[f] \notin {"open", "closing", "aborted"} =>
            next_ping[f] = None /\ next_pong_check[f] = None

\* C8's case: a connection the watchdog aborted has closed.
C8_ClosedAfterAbort ==
    \E f \in Factories :
        /\ state[f] = "disconnected"
        /\ droppedByMe[f]
        /\ next_ping[f] = None
        /\ next_pong_check[f] = None

\* C9: an open connection that has received a pong and whose peer has gone
\* silent is eventually aborted by the watchdog (unless the user closes it
\* first), and an aborted connection is eventually handled as a lost one:
\* a reconnect is scheduled, or retries are exhausted, or retrying was
\* stopped.
C9_GhostIsReconnected ==
    \A f \in Factories :
        /\ (state[f] = "open" /\ ghost[f] /\ last_pong_diff[f] # None)
              ~> (state[f] \in {"aborted", "closing"})
        /\ (state[f] = "aborted")
              ~> (/\ state[f] = "disconnected"
                  /\ \/ callID[f]
                     \/ retries[f] > reconnect_max_tries
                     \/ ~continueTrying[f])

\* C9's case: a connection the watchdog aborted has been lost and its
\* reconnect is scheduled.
C9_AbortedAndRescheduled ==
    \E f \in Factories :
        state[f] = "disconnected" /\ droppedByMe[f] /\ callID[f] /\ retries[f] > 0

\* C10: each scheduled reconnect delay is at least the previous one and at
\* most reconnect_max_delay.
C10_DelayMonotoneCapped ==
    [][\A f \in Factories :
          (~callID[f] /\ callID'[f])
          => delay'[f] >= delay[f] /\ delay'[f] <= reconnect_max_delay]_vars

\* Factory f's handshake succeeds in this step (onConnect and onOpen ran).
OpenStep(f) == state[f] = "connecting" /\ state'[f] = "open"

\* C11: on every open, the subscribe step of a client with a valid task
\* sends exactly the connect frame and then the subscribe frame on the
\* connection that opened, and starts the heartbeat sender with them sent.
C11_OpenSubscribes ==
    [][\A f \in Factories :
          (OpenStep(f) /\ on_open = "subscribe" /\ task \in {"mw", "sfi", "dp"})
          => /\ sent' = << <<f, "cn">>, <<f, task>> >>
             /\ hb_threads' = hb_threads + 1]_vars

\* C12: a client whose task is outside {mw, sfi, dp} never sends a connect,
\* subscribe or heartbeat frame and never has a heartbeat sender, whatever
\* calls of send_request were made.
C12_InvalidTaskSendsNothing ==
    task \notin {"mw", "sfi", "dp"} =>
        sent = <<>> /\ hb_threads = 0 /\ hb_sending = 0

\* C12's case: send_request has just been called with an invalid task while
\* the client's connection is open.
C12_InvalidTaskRequested ==
    /\ task \notin {"mw", "sfi", "dp"}
    /\ request_result # NoCall
    /\ ws # 0
    /\ state[ws] = "open"

\* C13: a send_request call with a task outside {mw, sfi, dp} ends in an
\* exception raised to the caller.
C13_InvalidTaskRaises ==
    [][(request_result' # NoCall /\ task \notin {"mw", "sfi", "dp"})
       => request_result' = "raised"]_vars

\* C14: a heartbeat send is attempted only while the client's connection is
\* open.
C14_HeartbeatOnlyWhileOpen ==
    [][hb_sending' > hb_sending => ws # 0 /\ state[ws] = "open"]_vars

\* C15: while a heartbeat send is in progress nothing else of the client
\* runs: the next step is the end of that send.
C15_WritesSerialized ==
    [][hb_sending > 0 => hb_sending' = hb_sending - 1]_vars

\* C18: when the user's on_open is invoked, ws is the connection that just
\* opened.
C18_HandleIsOpenedConnection ==
    [][\A f \in Factories :
          (OpenStep(f) /\ on_open = "subscribe") => ws' = f]_vars

\* C19: at most one heartbeat sender exists.
C19_OneHeartbeat == hb_threads <= 1

\* C20: the loss of a connection the user closed invokes neither
\* on_reconnect nor on_noreconnect.
C20_CloseIsSilent ==
    [][\A f \in Factories :
          (state[f] = "closing" /\ state'[f] = "disconnected")
          => /\ reconnect_arg' = None
             /\ noreconnect_calls' = noreconnect_calls]_vars

\* The frame cannot be decoded: a text payload that fails a stage, or a
\* binary frame that ends before the packets its header announces or holds
\* a packet shorter than the 64 bytes of fields.
Undecodable(fr) ==
    IF fr.is_binary
    THEN /\ fr.short = None
         /\ \/ fr.header > Len(fr.packets)
            \/ \E i \in 1..fr.header : fr.packets[i] < 64
    ELSE fr.text # "ok"

\* C16: an inbound frame that cannot be decoded is dropped: on_ticks is not
\* invoked for it and no exception leaves the message handler.
C16_DecodeErrorDropped ==
    (message_result.handled /\ Undecodable(inbound))
    => message_result.raised = "none" /\ ~message_result.called

\* A binary frame whose header announces exactly the packets that follow,
\* each long enough for the fields of a tick.
WellFormed(fr) ==
    /\ fr.is_binary
    /\ fr.short = None
    /\ fr.header = Len(fr.packets)
    /\ \A i \in 1..Len(fr.packets) : fr.packets[i] >= 64

\* C17: a well-formed binary frame of N packets that is parsed yields
\* exactly N ticks, the i-th from packet i.
C17_OneTickPerPacket ==
    (message_result.handled /\ WellFormed(inbound) /\ on_ticks
        /\ FrameLength(inbound) > 4)
    => /\ message_result.called
       /\ message_result.ticks = [i \in 1..inbound.header |-> i]

====
